---- MODULE Spec2Model ----
(***************************************************************************)
(* Model of tigre/algorithms/ista_algorithms.py: the FISTA and ISTA        *)
(* reconstruction classes (construction and run_main_iter).                *)
(*                                                                         *)
(* Representation.                                                         *)
(*   - A volume (numpy array) is a tuple of NVoxel integers; array         *)
(*     arithmetic is element-wise.  Multiplying a volume by a non-integer  *)
(*     scalar rounds every element to the nearest integer (RoundDiv), the  *)
(*     finite-precision analogue of the float32 volume arithmetic.         *)
(*   - Scalar hyper-parameters (hyper, lambda, bm, lambdaForTv) are exact  *)
(*     normalised fractions <<n, d>>.                                      *)
(*   - The momentum coefficient t is a fixed-point number with TScale      *)
(*     units per 1.0; np.sqrt is the integer square root on that scale.    *)
(*   - A Python value that may be None is a tuple of length 0 (None) or 1. *)
(*   - tigre.Ax, tigre.Atb, im3ddenoise and the IterativeReconAlg base     *)
(*     class live outside this file; they are modelled from their          *)
(*     documented interfaces.                                              *)
(*   - The verbose branch (lines 175-183) only prints and reads            *)
(*     time.clock(); it changes no state and is not modelled.  The model   *)
(*     takes time.clock to exist, as on the interpreters the file was      *)
(*     written for (it was removed in Python 3.8).                         *)
(***************************************************************************)
EXTENDS Integers, Sequences, FiniteSets, TLC

(* ---------------------------- bounds ----------------------------------- *)
MaxNiter == 3
NAngles == 2
NVoxel == 2
TScale == 100

(* ------------------------- program constants --------------------------- *)
DefaultHyper == 20000
DefaultTvIter == 20
IstaTvIter == 20

None == << >>
Some(v) == << v >>

Voxels == 1..NVoxel
AngleIdx == 1..NAngles

(* ------------------------- exact fractions ----------------------------- *)
Abs(x) == IF x < 0 THEN -x ELSE x

RECURSIVE Gcd(_, _)
Gcd(a, b) == IF b = 0 THEN a ELSE Gcd(b, a % b)

Frac(n, d) ==
    LET g == Gcd(Abs(n), Abs(d))
        s == IF d < 0 THEN -1 ELSE 1
    IN  << (s * n) \div g, (s * d) \div g >>

FMul(p, q) == Frac(p[1] * q[1], p[2] * q[2])
FInv(p) == Frac(p[2], p[1])
FInt(k) == << k, 1 >>

DefaultLambda == Frac(1, 10)

\* nearest integer to n / d, d > 0
RoundDiv(n, d) == (2 * n + d) \div (2 * d)

(* ------------------------- volume arithmetic --------------------------- *)
VAdd(a, b) == [v \in Voxels |-> a[v] + b[v]]
VSub(a, b) == [v \in Voxels |-> a[v] - b[v]]
\* scalar fraction q times volume a
VScale(q, a) == [v \in Voxels |-> RoundDiv(q[1] * a[v], q[2])]

(* ----------------- external operators (interfaces) --------------------- *)
OpKinds == {"zero", "ones", "mixed"}
DenKinds == {"identity", "shrink"}

\* system matrix entry of the projector for angle a and voxel v
SysMat(kind, a, v) ==
    CASE kind = "zero" -> 0
      [] kind = "ones" -> 1
      [] kind = "mixed" -> IF (a + v) % 2 = 0 THEN 1 ELSE 0

RECURSIVE SumVox(_, _, _, _)
SumVox(kind, a, vol, v) ==
    IF v = 0 THEN 0 ELSE SysMat(kind, a, v) * vol[v] + SumVox(kind, a, vol, v - 1)

\* tigre.Ax(res, geo, angle, 'interpolated'): one projection row per angle of the block
Ax(kind, vol, block) ==
    [k \in 1..Len(block) |-> SumVox(kind, block[k], vol, NVoxel)]

RECURSIVE SumAng(_, _, _, _, _)
SumAng(kind, rows, block, v, k) ==
    IF k = 0 THEN 0
    ELSE SysMat(kind, block[k], v) * rows[k] + SumAng(kind, rows, block, v, k - 1)

\* tigre.Atb(rows, geo, angle, 'matched'): the adjoint of Ax
Atb(kind, rows, block) ==
    [v \in Voxels |-> SumAng(kind, rows, block, v, Len(block))]

Sign(x) == IF x > 0 THEN 1 ELSE IF x < 0 THEN -1 ELSE 0

\* im3ddenoise(img, iter, lmbda): returns a new volume
im3ddenoise(kind, img, iter, lmbda) ==
    IF kind = "identity" THEN img
    ELSE [v \in Voxels |-> img[v] - Sign(img[v])]


(* --------------------------- momentum ---------------------------------- *)
\* integer square root of x by bisection, given lo * lo <= x < hi * hi
RECURSIVE ISqrtIn(_, _, _)
ISqrtIn(x, lo, hi) ==
    IF hi - lo <= 1 THEN lo
    ELSE LET mid == (lo + hi) \div 2
         IN  IF mid * mid <= x THEN ISqrtIn(x, mid, hi) ELSE ISqrtIn(x, lo, mid)

\* np.sqrt(1 + 4 * t ** 2) on the TScale grid; the root lies in [2t, 2t + TScale]
SqrtTerm(t) == ISqrtIn(TScale * TScale + 4 * t * t, 2 * t, 2 * t + TScale + 1)

\* line 189 with t ** 2 dropped to t
NextT_noSquare(t) ==
    (TScale + ISqrtIn(TScale * TScale + 4 * t * TScale, 0, 2 * t + TScale + 1)) \div 2

\* line 189: t = (1 + np.sqrt(1 + 4 * t ** 2)) / 2
NextT(t) == (TScale + SqrtTerm(t)) \div 2

\* line 190 with the updated t in the numerator
Extrapolate_newT(x_rec, x_rec_old, t_old, t) ==
    VAdd(x_rec, VScale(Frac(t - TScale, t), VSub(x_rec, x_rec_old)))

\* line 190 with the updated x_rec in place of x_rec_old
Extrapolate_newX(x_rec, x_rec_old, t_old, t) ==
    VAdd(x_rec, VScale(Frac(t_old - TScale, t), VSub(x_rec, x_rec)))

\* line 190: self.res = x_rec + (t_old - 1) / t * (x_rec - x_rec_old)
Extrapolate(x_rec, x_rec_old, t_old, t) ==
    VAdd(x_rec, VScale(Frac(t_old - TScale, t), VSub(x_rec, x_rec_old)))

(* ------------------------- construction -------------------------------- *)
Has(kwargs, key) == key \in DOMAIN kwargs

\* lines 124-127 without the blocksize override
BlocksizeKw_caller(kwargs, nangles) ==
    IF Has(kwargs, "blocksize") THEN kwargs["blocksize"] ELSE nangles

\* lines 124-127: kwargs.update(dict(blocksize=angles.shape[0]))
BlocksizeKw(kwargs, nangles) == nangles

\* lines 130-133
HyperOf(kwargs) == IF ~Has(kwargs, "hyper") THEN FInt(DefaultHyper) ELSE kwargs["hyper"]

\* lines 134-137 ignoring the option
NumiterTvOf_fixed(kwargs) == DefaultTvIter

\* lines 134-137
NumiterTvOf(kwargs) == IF ~Has(kwargs, "tviter") THEN DefaultTvIter ELSE kwargs["tviter"]

\* lines 138-141
LambdaOf(kwargs) == IF ~Has(kwargs, "lambda") THEN DefaultLambda ELSE kwargs["lambda"]

\* line 143: self.__bm__ = 1. / self.__L__
BmOf(L) == FInv(L)

\* IterativeReconAlg: self.Quameasopts, None unless the option is given
QuameasoptsOf(kwargs) ==
    IF Has(kwargs, "Quameasopts") THEN Some(kwargs["Quameasopts"]) ELSE None

\* Subset Scheduler, "ordered": contiguous blocks of the index sequence
RECURSIVE OrderedBlocks(_, _, _)
OrderedBlocks(first, n, bs) ==
    IF first > n THEN << >>
    ELSE LET last == IF first + bs - 1 > n THEN n ELSE first + bs - 1
         IN  << [k \in 1..(last - first + 1) |-> first + k - 1] >>
             \o OrderedBlocks(last + 1, n, bs)

(* ------------------------- gradient step ------------------------------- *)
ProjRows(proj, block) == [k \in 1..Len(block) |-> proj[block[k]]]
RowSub(p, q) == [k \in 1..Len(p) |-> p[k] - q[k]]

\* lines 158-159 followed by the clamp of the docstring, res[res<0]=0
update_image_clamped(kind, bm, proj, res, block) ==
    LET r == VAdd(res, VScale(FMul(bm, FInt(2)),
                 Atb(kind, RowSub(ProjRows(proj, block), Ax(kind, res, block)), block)))
    IN  [v \in Voxels |-> IF r[v] < 0 THEN 0 ELSE r[v]]

\* lines 158-159: self.res += self.__bm__ * 2 * Atb(proj[angle_index[it]] - Ax(res))
update_image(kind, bm, proj, res, block) ==
    VAdd(res, VScale(FMul(bm, FInt(2)),
         Atb(kind, RowSub(ProjRows(proj, block), Ax(kind, res, block)), block)))

\* the data-minimizing pass: update_image once per block, in partition order
RECURSIVE art_data_minimizing(_, _, _, _, _, _)
art_data_minimizing(kind, bm, proj, res, blocks, j) ==
    IF j > Len(blocks) THEN res
    ELSE art_data_minimizing(kind, bm, proj,
                             update_image(kind, bm, proj, res, blocks[j]), blocks, j + 1)

(* --------------------- run_main_iter helpers --------------------------- *)
\* line 169 with self.lmbda
FistaLambdaForTv_lmbda(bm, lambda_, lmbda) == FMul(FMul(FInt(2), bm), lmbda)

\* line 169: lambdaForTv = 2 * self.__bm__ * self.__lambda__
FistaLambdaForTv(bm, lambda_, lmbda) == FMul(FMul(FInt(2), bm), lambda_)

\* line 210: lambdaForTv = 2 * self.__bm__ * self.lmbda
IstaLambdaForTv(bm, lambda_, lmbda) == FMul(FMul(FInt(2), bm), lmbda)

\* lines 187, 227 passing lambdaForTv itself
DenoiseStrength_direct(lamTv) == lamTv

\* lines 187, 227: third argument 1. / lambdaForTv
DenoiseStrength(lamTv) == FInv(lamTv)

\* lines 172-174 without the copy
ResPrevOf_none(Qopts, res, it) == None

\* lines 172-174 copying only after the first iteration
ResPrevOf_skipFirst(Qopts, res, it) == IF Qopts # None /\ it > 0 THEN Some(res) ELSE None

\* lines 172-174, 213-215
ResPrevOf(Qopts, res, it) == IF Qopts # None THEN Some(res) ELSE None

\* line 170 running one iteration too many
LoopContinues_offByOne(it, n) == it <= n

\* lines 170, 211: for i in range(self.niter)
LoopContinues(it, n) == it < n

\* Error/Quality Tracker: one record per call when metrics are requested
error_measurement(Qopts, trace, res_prev, res, it) ==
    IF Qopts # None THEN Append(trace, [prev |-> res_prev, cur |-> res]) ELSE trace

(* ------------------------------ state ---------------------------------- *)
VARIABLES
    cfg,          \* the constructor's arguments and the external collaborators
    self,         \* the object's fields set by __init__
    res,          \* self.res, the reconstruction estimate
    lq,           \* the quality trace kept by the tracker
    pc,           \* position inside run_main_iter
    i,            \* loop index
    t, t_old,     \* FISTA locals (0 while unbound)
    x_rec, x_rec_old,
    res_prev,
    lambdaForTv,
    calls,        \* history: the steps taken, in order
    gradLog,      \* history: one record per data-minimizing pass
    denCalls,     \* history: one record per im3ddenoise call
    errCalls,     \* history: one record per error_measurement call
    tHist,        \* history: the values t has taken
    estHist       \* history: self.res at the top of every iteration and at return

vars == << cfg, self, res, lq, pc, i, t, t_old, x_rec, x_rec_old, res_prev,
           lambdaForTv, calls, gradLog, denCalls, errCalls, tHist, estHist >>

(* ------------------------------ inputs --------------------------------- *)
Algs == {"FISTA", "ISTA"}

KwKeys == {"hyper", "tviter", "lambda", "blocksize", "Quameasopts"}

KwFull ==
    [hyper : {FInt(1), FInt(2)},
     tviter : {5},
     lambda : {Frac(1, 2), FInt(1)},
     blocksize : {1},
     Quameasopts : {<< "RMSE" >>}]

KwargsSet == {[k \in D |-> f[k]] : f \in KwFull, D \in SUBSET KwKeys}

InitImgs == {[v \in Voxels |-> 0], [v \in Voxels |-> 4], [v \in Voxels |-> v - 2]}

ProjSet == {[a \in AngleIdx |-> 0], [a \in AngleIdx |-> 3 * a]}

(* FISTA.__init__ (ISTA inherits it: ISTA.__int__ is never called) *)
Init ==
    /\ cfg \in [alg : Algs, niter : 0..MaxNiter, kwargs : KwargsSet, proj : ProjSet,
                opKind : OpKinds, denKind : DenKinds, res0 : InitImgs]
    /\ self = [niter |-> cfg.niter,
               blocksize |-> BlocksizeKw(cfg.kwargs, NAngles),
               angle_index |-> OrderedBlocks(1, NAngles, BlocksizeKw(cfg.kwargs, NAngles)),
               Quameasopts |-> QuameasoptsOf(cfg.kwargs),
               lmbda |-> Frac(1, 10),
               L |-> HyperOf(cfg.kwargs),
               numiter_tv |-> NumiterTvOf(cfg.kwargs),
               lambda_ |-> LambdaOf(cfg.kwargs),
               t |-> TScale,
               bm |-> BmOf(HyperOf(cfg.kwargs))]
    /\ res = cfg.res0
    /\ lq = << >>
    /\ pc = "start"
    /\ i = 0
    /\ t = 0
    /\ t_old = 0
    /\ x_rec = None
    /\ x_rec_old = None
    /\ res_prev = None
    /\ lambdaForTv = None
    /\ calls = << >>
    /\ gradLog = << >>
    /\ denCalls = << >>
    /\ errCalls = << >>
    /\ tHist = << >>
    /\ estHist = << >>

(* ----------------------------- actions --------------------------------- *)
\* FISTA.run_main_iter, lines 166-169
FistaEnter ==
    /\ pc = "start"
    /\ cfg.alg = "FISTA"
    /\ t' = self.t
    /\ x_rec' = res
    /\ lambdaForTv' = FistaLambdaForTv(self.bm, self.lambda_, self.lmbda)
    /\ tHist' = << self.t >>
    /\ i' = 0
    /\ pc' = "loop"
    /\ UNCHANGED << cfg, self, res, lq, t_old, x_rec_old, res_prev, calls, gradLog,
                    denCalls, errCalls, estHist >>

\* ISTA.run_main_iter, lines 209-210
IstaEnter ==
    /\ pc = "start"
    /\ cfg.alg = "ISTA"
    /\ lambdaForTv' = IstaLambdaForTv(self.bm, self.lambda_, self.lmbda)
    /\ i' = 0
    /\ pc' = "loop"
    /\ UNCHANGED << cfg, self, res, lq, t, t_old, x_rec, x_rec_old, res_prev, calls,
                    gradLog, denCalls, errCalls, tHist, estHist >>

\* lines 170-174, 211-215: the loop test and the copy for the tracker
IterBegin ==
    /\ pc = "loop"
    /\ LoopContinues(i, self.niter)
    /\ res_prev' = ResPrevOf(self.Quameasopts, res, i)
    /\ estHist' = Append(estHist, res)
    /\ pc' = "datamin"
    /\ UNCHANGED << cfg, self, res, lq, i, t, t_old, x_rec, x_rec_old, lambdaForTv,
                    calls, gradLog, denCalls, errCalls, tHist >>

\* lines 184, 225: getattr(self, self.dataminimizing)()
DataMinimizing ==
    /\ pc = "datamin"
    /\ res' = art_data_minimizing(cfg.opKind, self.bm, cfg.proj, res, self.angle_index, 1)
    /\ gradLog' = Append(gradLog, [before |-> res, after |-> res',
                                   nblocks |-> Len(self.angle_index)])
    /\ calls' = Append(calls, "datamin")
    /\ pc' = "denoise"
    /\ UNCHANGED << cfg, self, lq, i, t, t_old, x_rec, x_rec_old, res_prev, lambdaForTv,
                    denCalls, errCalls, tHist, estHist >>

\* lines 186-187
FistaDenoise ==
    /\ pc = "denoise"
    /\ cfg.alg = "FISTA"
    /\ x_rec_old' = x_rec
    /\ x_rec' = im3ddenoise(cfg.denKind, res, self.numiter_tv, DenoiseStrength(lambdaForTv))
    /\ denCalls' = Append(denCalls, [img |-> res, iter |-> self.numiter_tv,
                                     lmbda |-> DenoiseStrength(lambdaForTv),
                                     lamTv |-> lambdaForTv, out |-> x_rec'])
    /\ calls' = Append(calls, "denoise")
    /\ pc' = "momentum"
    /\ UNCHANGED << cfg, self, res, lq, i, t, t_old, res_prev, lambdaForTv, gradLog,
                    errCalls, tHist, estHist >>

\* lines 188-190
FistaMomentum ==
    /\ pc = "momentum"
    /\ t_old' = t
    /\ t' = NextT(t)
    /\ res' = Extrapolate(x_rec, x_rec_old, t_old', t')
    /\ tHist' = Append(tHist, t')
    /\ calls' = Append(calls, "momentum")
    /\ pc' = "error"
    /\ UNCHANGED << cfg, self, lq, i, x_rec, x_rec_old, res_prev, lambdaForTv, gradLog,
                    denCalls, errCalls, estHist >>

\* line 227
IstaDenoise ==
    /\ pc = "denoise"
    /\ cfg.alg = "ISTA"
    /\ res' = im3ddenoise(cfg.denKind, res, IstaTvIter, DenoiseStrength(lambdaForTv))
    /\ denCalls' = Append(denCalls, [img |-> res, iter |-> IstaTvIter,
                                     lmbda |-> DenoiseStrength(lambdaForTv),
                                     lamTv |-> lambdaForTv, out |-> res'])
    /\ calls' = Append(calls, "denoise")
    /\ pc' = "error"
    /\ UNCHANGED << cfg, self, lq, i, t, t_old, x_rec, x_rec_old, res_prev, lambdaForTv,
                    gradLog, errCalls, tHist, estHist >>

\* lines 192, 229: self.error_measurement(res_prev, i), then the next index
ErrorMeasurement ==
    /\ pc = "error"
    /\ lq' = error_measurement(self.Quameasopts, lq, res_prev, res, i)
    /\ errCalls' = Append(errCalls, [res_prev |-> res_prev, i |-> i])
    /\ calls' = Append(calls, "error")
    /\ i' = i + 1
    /\ pc' = "loop"
    /\ UNCHANGED << cfg, self, res, t, t_old, x_rec, x_rec_old, res_prev, lambdaForTv,
                    gradLog, denCalls, tHist, estHist >>

\* the loop is exhausted: run_main_iter returns
Return ==
    /\ pc = "loop"
    /\ ~LoopContinues(i, self.niter)
    /\ estHist' = Append(estHist, res)
    /\ pc' = "done"
    /\ UNCHANGED << cfg, self, res, lq, i, t, t_old, x_rec, x_rec_old, res_prev,
                    lambdaForTv, calls, gradLog, denCalls, errCalls, tHist >>

Next ==
    \/ FistaEnter
    \/ IstaEnter
    \/ IterBegin
    \/ DataMinimizing
    \/ FistaDenoise
    \/ FistaMomentum
    \/ IstaDenoise
    \/ ErrorMeasurement
    \/ Return

Spec == Init /\ [][Next]_vars

\* the loop runs without waiting on anything: every enabled step is taken
LiveSpec == Spec /\ WF_vars(Next)

TypeOK ==
    /\ pc \in {"start", "loop", "datamin", "denoise", "momentum", "error", "done"}
    /\ i \in 0..(MaxNiter + 1)
    /\ Len(lq) <= i

(* ------------------- the configuration as the caller gave it ----------- *)
CfgHyper == IF "hyper" \in DOMAIN cfg.kwargs THEN cfg.kwargs["hyper"] ELSE << 20000, 1 >>
CfgLambda == IF "lambda" \in DOMAIN cfg.kwargs THEN cfg.kwargs["lambda"] ELSE << 1, 10 >>
CfgTvIter == IF "tviter" \in DOMAIN cfg.kwargs THEN cfg.kwargs["tviter"] ELSE 20
CfgQuality == "Quameasopts" \in DOMAIN cfg.kwargs
\* 2 * (1 / hyper) * lambda and its reciprocal, as reduced fractions
CfgLambdaForTv == Frac(2 * CfgHyper[2] * CfgLambda[1], CfgHyper[1] * CfgLambda[2])
CfgInvLambdaForTv == Frac(CfgHyper[1] * CfgLambda[2], 2 * CfgHyper[2] * CfgLambda[1])
AllAngles == [k \in 1..NAngles |-> k]
\* number of iterations whose denoiser call has been made
DenoisedIters == IF pc \in {"momentum", "error"} THEN i + 1 ELSE i

(* ------------------------------- C1 ------------------------------------ *)
\* C1: in a FISTA run the momentum coefficient starts at t_1 = 1, every
\* iteration replaces it by (1 + sqrt(1 + 4 t^2)) / 2 (checked by squaring:
\* 2 t' - 1 brackets the root of 1 + 4 t^2 on the grid), and t_{i+1} > t_i.
C1_MomentumRecursion ==
    (cfg.alg = "FISTA" /\ pc # "start") =>
        /\ Len(tHist) = (IF pc = "error" THEN i + 2 ELSE i + 1)
        /\ tHist[1] = TScale
        /\ t = tHist[Len(tHist)]
        /\ \A k \in 1..(Len(tHist) - 1) :
              LET r == 2 * tHist[k + 1] - TScale
                  x == TScale * TScale + 4 * tHist[k] * tHist[k]
              IN  /\ tHist[k + 1] > tHist[k]
                  /\ r * r <= x
                  /\ x < (r + 2) * (r + 2)

C1_Witness == cfg.alg = "FISTA" /\ pc = "done" /\ Len(tHist) >= 3

(* ------------------------------- C2 ------------------------------------ *)
\* C2: after the extrapolation of FISTA iteration k the estimate is
\* x_k + ((t_k - 1) / t_{k+1}) * (x_k - x_{k-1}), with x_k this iteration's
\* denoiser output, x_{k-1} the previous one (the initial estimate for k = 1),
\* t_k the momentum before and t_{k+1} after this iteration's update.
C2_Extrapolation ==
    (cfg.alg = "FISTA" /\ pc = "error") =>
        LET k == i + 1
            xk == denCalls[k].out
            xprev == IF k = 1 THEN cfg.res0 ELSE denCalls[k - 1].out
        IN  /\ Len(denCalls) = k
            /\ Len(tHist) = k + 1
            /\ res = [v \in Voxels |->
                        xk[v] + RoundDiv((tHist[k] - TScale) * (xk[v] - xprev[v]),
                                         tHist[k + 1])]

C2_Witness ==
    /\ cfg.alg = "FISTA"
    /\ pc = "error"
    /\ i >= 1
    /\ res # x_rec
    /\ x_rec # x_rec_old

(* ------------------------------- C3 ------------------------------------ *)
\* C3 as stated: every FISTA iteration calls the denoiser exactly once, on the
\* estimate the gradient pass produced, with tviter inner iterations and with
\* the strength argument equal to lambdaForTv = 2 * bm * lambda.
C3_Original ==
    cfg.alg = "FISTA" =>
        /\ Len(denCalls) = DenoisedIters
        /\ \A k \in 1..Len(denCalls) :
              /\ denCalls[k].img = gradLog[k].after
              /\ denCalls[k].iter = CfgTvIter
              /\ denCalls[k].lmbda = CfgLambdaForTv

\* C3 amended: as above, but the strength argument is the reciprocal
\* 1 / lambdaForTv = 1 / (2 * bm * lambda).
C3_DenoiserCall ==
    cfg.alg = "FISTA" =>
        /\ Len(denCalls) = DenoisedIters
        /\ \A k \in 1..Len(denCalls) :
              /\ denCalls[k].img = gradLog[k].after
              /\ denCalls[k].iter = CfgTvIter
              /\ denCalls[k].lmbda = CfgInvLambdaForTv

C3_Witness ==
    /\ cfg.alg = "FISTA"
    /\ pc = "done"
    /\ Len(denCalls) >= 2
    /\ "tviter" \in DOMAIN cfg.kwargs
    /\ CfgInvLambdaForTv # CfgLambdaForTv

(* ------------------------------- C4 ------------------------------------ *)
\* C4: every ISTA iteration calls the denoiser with 20 inner iterations and
\* with lambdaForTv = 2 * bm * lambda for the configured lambda option, and
\* the denoiser output is the next iteration's estimate.
C4_IstaDenoiserCall ==
    cfg.alg = "ISTA" =>
        /\ Len(denCalls) = (IF pc = "error" THEN i + 1 ELSE i)
        /\ \A k \in 1..Len(denCalls) :
              /\ denCalls[k].iter = 20
              /\ denCalls[k].lamTv = CfgLambdaForTv
              /\ (k + 1 <= Len(estHist) => estHist[k + 1] = denCalls[k].out)

(* ------------------------------- C5 ------------------------------------ *)
\* C5 as stated: with quality measurement enabled the tracker call of the
\* first iteration (i = 0) gets None, and later calls get a copy of the
\* estimate held at the start of their iteration.
C5_Original ==
    self.Quameasopts # None =>
        \A k \in 1..Len(errCalls) :
            /\ (errCalls[k].i = 0 => errCalls[k].res_prev = None)
            /\ (errCalls[k].i > 0 => errCalls[k].res_prev = Some(estHist[k]))

\* C5 amended: with quality measurement enabled every tracker call, the first
\* included, gets a copy of the estimate held at the start of its iteration;
\* None is passed exactly when quality measurement is disabled.
C5_TrackerArgument ==
    \A k \in 1..Len(errCalls) :
        /\ errCalls[k].i = k - 1
        /\ errCalls[k].res_prev = (IF CfgQuality THEN Some(estHist[k]) ELSE None)

C5_Witness ==
    /\ CfgQuality
    /\ Len(errCalls) >= 2
    /\ errCalls[1].res_prev = Some(cfg.res0)
    /\ errCalls[2].res_prev # errCalls[1].res_prev

(* ------------------------------- C6 ------------------------------------ *)
\* C6: after a complete run the quality trace has exactly niter records when
\* metrics are requested, record k relating the estimate at the start of
\* iteration k to the estimate at its end, and is empty otherwise.
C6_QualityTrace ==
    pc = "done" =>
        IF CfgQuality
        THEN /\ Len(lq) = cfg.niter
             /\ \A k \in 1..Len(lq) :
                    lq[k] = [prev |-> Some(estHist[k]), cur |-> estHist[k + 1]]
        ELSE lq = << >>

C6_Witness ==
    /\ pc = "done"
    /\ CfgQuality
    /\ Len(lq) >= 2
    /\ lq[1].cur # cfg.res0

C8_ZeroIterations ==
    cfg.niter = 0 =>
        /\ calls = << >>
        /\ gradLog = << >>
        /\ denCalls = << >>
        /\ errCalls = << >>
        /\ lq = << >>
        /\ res = cfg.res0
        /\ (pc = "done" => estHist = << cfg.res0 >>)

C8_Witness == cfg.niter = 0 /\ pc = "done" /\ \E v \in Voxels : res[v] # 0

(* ------------------------------- C9 ------------------------------------ *)
RECURSIVE ExpectedCalls(_, _)
ExpectedCalls(alg, n) ==
    IF n = 0 THEN << >>
    ELSE ExpectedCalls(alg, n - 1)
         \o (IF alg = "FISTA" THEN << "datamin", "denoise", "momentum", "error" >>
             ELSE << "datamin", "denoise", "error" >>)

\* C9: every run terminates, having made exactly niter iterations, each one
\* gradient pass, one denoiser call, (FISTA) one momentum update and one
\* tracker call in this order, whatever the estimate and the metrics are.
C9_Termination ==
    /\ <>(pc = "done")
    /\ [](/\ Len(calls) <= Len(ExpectedCalls(cfg.alg, cfg.niter))
          /\ calls = SubSeq(ExpectedCalls(cfg.alg, cfg.niter), 1, Len(calls)))
    /\ [](pc = "done" => (i = cfg.niter /\ calls = ExpectedCalls(cfg.alg, cfg.niter)))

C9_Witness == pc = "done" /\ cfg.niter >= 2 /\ Len(calls) >= 6

====
